---- MODULE Spec2Model ----
(***************************************************************************)
(* A model of the five tutorial scripts of the repository:                 *)
(*   openai_client.py, multi_provider_llm.py, token_tracking.py,           *)
(*   web_scraper.py and hello_world.py.                                    *)
(* One behaviour is one run of one script (chosen in Init).  The process   *)
(* environment (os.environ), the backend's HTTP answers, the exit status   *)
(* of the "ollama pull" subprocess and the fetched web page are the        *)
(* script's inputs and are chosen nondeterministically.                    *)
(*                                                                         *)
(* The client libraries (openai, tiktoken, subprocess, requests,           *)
(* BeautifulSoup) are modelled at the calls the scripts make to them.      *)
(*                                                                         *)
(* Python values: text is a TLA+ string; None is the string None below     *)
(* (no real value of the model equals it); an optional record is a         *)
(* sequence of length 0 (absent) or 1.                                     *)
(***************************************************************************)
EXTENDS Integers, Sequences, FiniteSets, TLC

VARIABLES
    script,        \* the script that is run
    pc,            \* the statement the script is at
    idx,           \* position in the client table / call table / message loop
    env,           \* os.environ: variable name -> value, None when unset
    envChanges,    \* how often the environment changed since the start
    keys,          \* module-level or local api-key variables: name -> value
    clients,       \* namespace of client objects: name -> [api_key, base_url]
    request,       \* the last chat request sent (optional record)
    sent,          \* create(...) calls issued since the current call began
    response,      \* the last backend answer (optional record)
    result,        \* outcome of the last finished call (optional record)
    attempted,     \* the provider tests main has started, in order
    usage_printed, \* the usage lines token_tracking printed (optional record)
    messages,      \* the conversation handed to calculate_input_tokens
    input_text,    \* calculate_input_tokens' accumulator
    input_tokens,  \* calculate_input_tokens' return value, -1 before it returns
    output_tokens, \* calculate_output_tokens' return value, -1 before it returns
    pull,          \* outcome of the last "ollama pull", None before one ran
    website,       \* the text summarize works on, None before it is fetched
    soup           \* the page the parser made of the fetched bytes (optional record)

vars == <<script, pc, idx, env, envChanges, keys, clients, request, sent,
          response, result, attempted, usage_printed, messages, input_text,
          input_tokens, output_tokens, pull, website, soup>>

None == "None"

\* Python truthiness of an optional string: `if not api_key`.
Falsy(v) == v = None \/ v = ""

(***************************************************************************)
(* Bounds of the model.                                                    *)
(***************************************************************************)
MaxEnvChanges == 1
MaxMsgs == 3

(***************************************************************************)
(* The environment.                                                        *)
(***************************************************************************)
EnvVars == {"OPENAI_API_KEY", "ANTHROPIC_API_KEY", "GOOGLE_API_KEY",
            "DEEPSEEK_API_KEY", "GROQ_API_KEY", "GROK_API_KEY",
            "OPENROUTER_API_KEY"}

EnvValues == {None, "", "k1", "k2"}

\* The .env files load_dotenv(override=True) may find at start-up.
DotEnvFiles ==
    { [v \in EnvVars |-> None],
      [v \in EnvVars |-> "k1"],
      [v \in EnvVars |-> IF v = "OPENAI_API_KEY" THEN "k1" ELSE None],
      [v \in EnvVars |-> IF v = "OPENAI_API_KEY" THEN None ELSE "k1"] }

\* os.getenv(name)
Getenv(name) == env[name]

(***************************************************************************)
(* The client library, as the scripts use it.                              *)
(***************************************************************************)
DEFAULT_BASE_URL == "default API endpoint"
GEMINI_BASE_URL == "https://generativelanguage.googleapis.com/v1beta/openai/"
OLLAMA_BASE_URL == "http://localhost:11434/v1"

\* OpenAI(api_key=..., base_url=...): an api_key of None falls back to the
\* OPENAI_API_KEY environment variable ("The OpenAI() client automatically
\* uses the OPENAI_API_KEY environment variable", hello_world.py line 23),
\* read when the client is constructed; with no key at all the constructor
\* raises.  The result is the client (length 1) or, when the constructor
\* raised, nothing.
OpenAI(api_key, base_url) ==
    LET k == IF api_key = None THEN Getenv("OPENAI_API_KEY") ELSE api_key
    IN  IF k = None THEN <<>>
        ELSE <<[api_key |-> k, base_url |-> base_url]>>

\* What a function call or a statement ended with.
Return(v) == [kind |-> "return", value |-> v, error |-> "", status |-> 0]
Raise(e, s) == [kind |-> "raise", value |-> None, error |-> e, status |-> s]

\* The answers of a backend to one chat request.
ErrorStatuses == {401, 429}
Contents == {None, "Your name is Mkay"}
Usages == { <<>>,
            <<[prompt_tokens |-> 0, completion_tokens |-> 0, total_tokens |-> 0]>>,
            <<[prompt_tokens |-> 31, completion_tokens |-> 5, total_tokens |-> 36]>> }
ChoiceLists == { <<>> } \cup { <<[content |-> c]>> : c \in Contents }

TransportFailure ==
    [kind |-> "transport", status |-> 0, has_choices |-> FALSE,
     choices |-> <<>>, usage |-> <<>>]
HttpError(s) ==
    [kind |-> "http", status |-> s, has_choices |-> FALSE,
     choices |-> <<>>, usage |-> <<>>]
Success(has_choices, choices, usage) ==
    [kind |-> "ok", status |-> 200, has_choices |-> has_choices,
     choices |-> choices, usage |-> usage]

Responses ==
    {TransportFailure}
    \cup { HttpError(s) : s \in ErrorStatuses }
    \cup { Success(FALSE, <<>>, u) : u \in Usages }
    \cup { Success(TRUE, ch, u) : ch \in ChoiceLists, u \in Usages }

\* Mutant: a body without a first choice is answered with None.
ChoiceContentGuarded(resp) ==
    IF resp.kind = "transport" THEN Raise("APIConnectionError", 0)
    ELSE IF resp.kind = "http" THEN Raise("APIStatusError", resp.status)
    ELSE IF ~resp.has_choices \/ Len(resp.choices) = 0 THEN Return(None)
    ELSE Return(resp.choices[1].content)

\* client.chat.completions.create(...) followed by
\* response.choices[0].message.content: the library raises on a transport
\* failure and on a non-2xx status; the subscript raises TypeError on a
\* missing choices field and IndexError on an empty list.
ChoiceContent(resp) ==
    IF resp.kind = "transport" THEN Raise("APIConnectionError", 0)
    ELSE IF resp.kind = "http" THEN Raise("APIStatusError", resp.status)
    ELSE IF ~resp.has_choices THEN Raise("TypeError", 0)
    ELSE IF Len(resp.choices) = 0 THEN Raise("IndexError", 0)
    ELSE Return(resp.choices[1].content)

ChatRequest(client, model, msgs) ==
    [base_url |-> client.base_url, api_key |-> client.api_key,
     model |-> model, messages |-> msgs]

Message(role, content) == [role |-> role, content |-> content]

\* One create(...) call: the scripts hand the library one request and get
\* one answer or one exception back.  What the library's transport does
\* below that call is not part of the repository.
ChatCompletionsCreate(client, model, msgs, resp) ==
    /\ request' = <<ChatRequest(client, model, msgs)>>
    /\ sent' = sent + 1
    /\ response' = <<resp>>

\* The same for a call that begins with the create(...) statement itself.
CallAndCreate(client, model, msgs, resp) ==
    /\ request' = <<ChatRequest(client, model, msgs)>>
    /\ sent' = 1
    /\ response' = <<resp>>

(***************************************************************************)
(* Namespaces of client objects.                                           *)
(***************************************************************************)
NoClients == [n \in {} |-> None]

\* Mutant: a name that is bound keeps its first binding.
BindIfAbsent(table, name, client) ==
    [n \in DOMAIN table \cup {name} |->
        IF n \in DOMAIN table THEN table[n] ELSE client]

\* name = OpenAI(...): binds the name, replacing an earlier binding.
Bind(table, name, client) ==
    [n \in DOMAIN table \cup {name} |->
        IF n = name THEN client ELSE table[n]]

\* Evaluating a name: the bound client, or NameError.
Lookup(table, name) ==
    IF name \in DOMAIN table THEN Return(table[name])
    ELSE Raise("NameError", 0)

(***************************************************************************)
(* The environment changes outside the script's control (a rotated or      *)
(* removed secret, a rewritten .env that load_dotenv(override=True)        *)
(* re-reads).                                                              *)
(***************************************************************************)
Running == pc \notin {"exit", "traceback"}

EnvChange ==
    /\ Running
    /\ envChanges < MaxEnvChanges
    /\ \E v \in EnvVars, val \in EnvValues :
          /\ val # env[v]
          /\ env' = [env EXCEPT ![v] = val]
    /\ envChanges' = envChanges + 1
    /\ UNCHANGED <<script, pc, idx, keys, clients, request, sent, response,
                   result, attempted, usage_printed, messages, input_text,
                   input_tokens, output_tokens, pull, website, soup>>

(***************************************************************************)
(* openai_client.py                                                        *)
(***************************************************************************)
FunFact == <<Message("user", "Tell me a fun fact")>>

PullOutcomes == {"exit 0", "exit 1", "FileNotFoundError"}

\* Variables no action of openai_client.py touches.
OcFrame ==
    UNCHANGED <<script, idx, env, envChanges, keys, usage_printed, messages,
                input_text, input_tokens, output_tokens, website, soup>>

\* Mutant: the `if not api_key: return None` check is left out.
KeyedClientUnchecked(envVar, api_key_arg, base_url) ==
    OpenAI(IF api_key_arg THEN Getenv(envVar) ELSE None, base_url)

\* The credential check of test_openai and test_gemini: os.getenv at the
\* call, `if not api_key: return None`, else the client is constructed.
\* The outcome is the client (length 1), or nothing when None is returned.
KeyedClient(envVar, api_key_arg, base_url) ==
    LET api_key == Getenv(envVar)
    IN  IF Falsy(api_key) THEN <<>>
        ELSE OpenAI(IF api_key_arg THEN api_key ELSE None, base_url)

\* test_openai, lines 24-34, called from __main__ line 116.
test_openai_client == KeyedClient("OPENAI_API_KEY", FALSE, DEFAULT_BASE_URL)

test_openai ==
    /\ pc = "test_openai"
    /\ attempted' = Append(attempted, "OpenAI")
    /\ sent' = 0 /\ request' = <<>> /\ response' = <<>>
    /\ IF test_openai_client = <<>>
       THEN /\ result' = <<Return(None)>>
            /\ clients' = NoClients
            /\ pc' = "test_gemini"
       ELSE /\ result' = <<>>
            /\ clients' = Bind(NoClients, "openai", test_openai_client[1])
            /\ pc' = "test_openai_create"
    /\ UNCHANGED pull
    /\ OcFrame

\* Mutant: a 429 answer is retried.
test_openai_create_retry ==
    /\ pc = "test_openai_create"
    /\ \E resp \in Responses :
          /\ ChatCompletionsCreate(clients["openai"], "gpt-5-nano", FunFact, resp)
          /\ IF resp.kind = "http" /\ resp.status = 429
             THEN /\ result' = <<>>
                  /\ pc' = pc
                  /\ clients' = clients
             ELSE /\ result' = <<ChoiceContent(resp)>>
                  /\ pc' = IF ChoiceContent(resp).kind = "raise"
                           THEN "traceback" ELSE "test_gemini"
                  /\ clients' = NoClients
    /\ UNCHANGED <<attempted, pull>>
    /\ OcFrame

\* test_openai, lines 35-39: an exception is not caught by __main__.
test_openai_create ==
    /\ pc = "test_openai_create"
    /\ \E resp \in Responses :
          /\ ChatCompletionsCreate(clients["openai"], "gpt-5-nano", FunFact, resp)
          /\ result' = <<ChoiceContent(resp)>>
          /\ pc' = IF ChoiceContent(resp).kind = "raise"
                   THEN "traceback" ELSE "test_gemini"
    /\ clients' = NoClients
    /\ UNCHANGED <<attempted, pull>>
    /\ OcFrame

\* Mutant: the key of another provider is read.
test_gemini_client_openai_key == KeyedClient("OPENAI_API_KEY", TRUE, GEMINI_BASE_URL)

\* Mutant: the missing key is reported but the function does not return.
test_gemini_no_return ==
    /\ pc = "test_gemini"
    /\ attempted' = Append(attempted, "Google Gemini")
    /\ sent' = 0 /\ request' = <<>> /\ response' = <<>>
    /\ LET client == OpenAI(Getenv("GOOGLE_API_KEY"), GEMINI_BASE_URL)
       IN  IF client = <<>>
           THEN /\ result' = <<Raise("OpenAIError", 0)>>
                /\ clients' = NoClients
                /\ pc' = "traceback"
           ELSE /\ result' = <<>>
                /\ clients' = Bind(NoClients, "gemini", client[1])
                /\ pc' = "test_gemini_create"
    /\ UNCHANGED pull
    /\ OcFrame

\* test_gemini, lines 47-59, called from __main__ line 123.
test_gemini_client == KeyedClient("GOOGLE_API_KEY", TRUE, GEMINI_BASE_URL)

test_gemini ==
    /\ pc = "test_gemini"
    /\ attempted' = Append(attempted, "Google Gemini")
    /\ sent' = 0 /\ request' = <<>> /\ response' = <<>>
    /\ IF test_gemini_client = <<>>
       THEN /\ result' = <<Return(None)>>
            /\ clients' = NoClients
            /\ pc' = "test_ollama_llama"
       ELSE /\ result' = <<>>
            /\ clients' = Bind(NoClients, "gemini", test_gemini_client[1])
            /\ pc' = "test_gemini_create"
    /\ UNCHANGED pull
    /\ OcFrame

\* test_gemini, lines 60-64.
test_gemini_create ==
    /\ pc = "test_gemini_create"
    /\ \E resp \in Responses :
          /\ ChatCompletionsCreate(clients["gemini"], "gemini-2.5-flash-lite",
                                   FunFact, resp)
          /\ result' = <<ChoiceContent(resp)>>
          /\ pc' = IF ChoiceContent(resp).kind = "raise"
                   THEN "traceback" ELSE "test_ollama_llama"
    /\ clients' = NoClients
    /\ UNCHANGED <<attempted, pull>>
    /\ OcFrame

\* Mutant: the placeholder api_key is left out.
OllamaClientNoKey == OpenAI(None, OLLAMA_BASE_URL)

\* ollama = OpenAI(base_url=OLLAMA_BASE_URL, api_key='ollama')
OllamaClient == OpenAI("ollama", OLLAMA_BASE_URL)

\* The three steps of test_ollama_llama and test_ollama_deepseek.  __main__
\* runs both inside try/except Exception, so a raise moves on to `after`.
OllamaTest(name, here, after) ==
    /\ pc = here
    /\ attempted' = Append(attempted, name)
    /\ sent' = 0 /\ request' = <<>> /\ response' = <<>>
    /\ IF OllamaClient = <<>>
       THEN /\ result' = <<Raise("OpenAIError", 0)>>
            /\ clients' = NoClients
            /\ pc' = after
       ELSE /\ result' = <<>>
            /\ clients' = Bind(NoClients, "ollama", OllamaClient[1])
            /\ pc' = here \o "_pull"
    /\ pull' = None
    /\ OcFrame

\* Mutant: the pull runs with check=False, so a failed pull raises nothing.
OllamaPullNoCheck(here, after) ==
    /\ pc = here \o "_pull"
    /\ \E outcome \in PullOutcomes :
          /\ pull' = outcome
          /\ IF outcome # "FileNotFoundError"
             THEN /\ pc' = here \o "_create"
                  /\ UNCHANGED <<result, clients>>
             ELSE /\ result' = <<Raise("FileNotFoundError", 0)>>
                  /\ clients' = NoClients
                  /\ pc' = after
    /\ UNCHANGED <<attempted, request, sent, response>>
    /\ OcFrame

\* subprocess.run(["ollama", "pull", model], check=True)
OllamaPull(here, after) ==
    /\ pc = here \o "_pull"
    /\ \E outcome \in PullOutcomes :
          /\ pull' = outcome
          /\ IF outcome = "exit 0"
             THEN /\ pc' = here \o "_create"
                  /\ UNCHANGED <<result, clients>>
             ELSE /\ result' = <<Raise(IF outcome = "exit 1"
                                       THEN "CalledProcessError"
                                       ELSE "FileNotFoundError", 0)>>
                  /\ clients' = NoClients
                  /\ pc' = after
    /\ UNCHANGED <<attempted, request, sent, response>>
    /\ OcFrame

\* Mutant: __main__ calls the Ollama tests without try/except.
OllamaCreateUncaught(model, here, after) ==
    /\ pc = here \o "_create"
    /\ \E resp \in Responses :
          /\ ChatCompletionsCreate(clients["ollama"], model, FunFact, resp)
          /\ result' = <<ChoiceContent(resp)>>
          /\ pc' = IF ChoiceContent(resp).kind = "raise" THEN "traceback" ELSE after
    /\ clients' = NoClients
    /\ UNCHANGED <<attempted, pull>>
    /\ OcFrame

OllamaCreate(model, here, after) ==
    /\ pc = here \o "_create"
    /\ \E resp \in Responses :
          /\ ChatCompletionsCreate(clients["ollama"], model, FunFact, resp)
          /\ result' = <<ChoiceContent(resp)>>
    /\ pc' = after
    /\ clients' = NoClients
    /\ UNCHANGED <<attempted, pull>>
    /\ OcFrame

\* test_ollama_llama, lines 72-86, called from __main__ lines 130-135.
test_ollama_llama ==
    OllamaTest("Ollama Llama 3.2", "test_ollama_llama", "test_ollama_deepseek")
test_ollama_llama_pull ==
    OllamaPull("test_ollama_llama", "test_ollama_deepseek")
test_ollama_llama_create ==
    OllamaCreate("llama3.2", "test_ollama_llama", "test_ollama_deepseek")

\* test_ollama_deepseek, lines 94-108, called from __main__ lines 140-145.
test_ollama_deepseek ==
    OllamaTest("Ollama Deepseek R1", "test_ollama_deepseek", "exit")
test_ollama_deepseek_pull ==
    OllamaPull("test_ollama_deepseek", "exit")
test_ollama_deepseek_create ==
    OllamaCreate("deepseek-r1:1.5b", "test_ollama_deepseek", "exit")

OpenaiClientMain ==
    \/ test_openai \/ test_openai_create
    \/ test_gemini \/ test_gemini_create
    \/ test_ollama_llama \/ test_ollama_llama_pull \/ test_ollama_llama_create
    \/ test_ollama_deepseek \/ test_ollama_deepseek_pull \/ test_ollama_deepseek_create

(***************************************************************************)
(* multi_provider_llm.py                                                   *)
(***************************************************************************)
\* Variables no action of multi_provider_llm.py touches.
MpFrame ==
    UNCHANGED <<script, env, envChanges, attempted, usage_printed, messages,
                input_text, input_tokens, output_tokens, website, soup>>

\* Lines 55-97: every key is read once, when the module is loaded; a missing
\* key is only reported.
ApiKeySetup ==
    /\ pc = "api_key_setup"
    /\ keys' = [v \in EnvVars |-> Getenv(v)]
    /\ pc' = "client_setup"
    /\ idx' = 1
    /\ UNCHANGED <<clients, request, sent, response, result, pull>>
    /\ MpFrame

anthropic_url == "https://api.anthropic.com/v1/"
gemini_url == "https://generativelanguage.googleapis.com/v1beta/openai/"
deepseek_url == "https://api.deepseek.com"
groq_url == "https://api.groq.com/openai/v1"
grok_url == "https://api.x.ai/v1"
openrouter_url == "https://openrouter.ai/api/v1"
ollama_url == "http://localhost:11434/v1"

\* Lines 107 and 121-127: the client table, in source order.  key_var names
\* the module-level key variable passed as api_key (by the environment
\* variable it was read from); literal is the api_key written in the call.
ClientTable ==
    << [name |-> "openai", key_var |-> None, literal |-> None,
        base_url |-> DEFAULT_BASE_URL],
       [name |-> "anthropic", key_var |-> "ANTHROPIC_API_KEY", literal |-> None,
        base_url |-> anthropic_url],
       [name |-> "gemini", key_var |-> "GOOGLE_API_KEY", literal |-> None,
        base_url |-> gemini_url],
       [name |-> "deepseek", key_var |-> "DEEPSEEK_API_KEY", literal |-> None,
        base_url |-> deepseek_url],
       [name |-> "groq", key_var |-> "GROQ_API_KEY", literal |-> None,
        base_url |-> groq_url],
       [name |-> "grok", key_var |-> "GROK_API_KEY", literal |-> None,
        base_url |-> grok_url],
       [name |-> "openrouter", key_var |-> "OPENROUTER_API_KEY", literal |-> None,
        base_url |-> openrouter_url],
       [name |-> "ollama", key_var |-> None, literal |-> "ollama",
        base_url |-> ollama_url] >>

\* The api_key argument of a table entry's constructor call.
ApiKeyArg(entry) ==
    IF entry.key_var # None THEN keys[entry.key_var] ELSE entry.literal

\* One assignment of the client table.
ClientSetup ==
    /\ pc = "client_setup"
    /\ LET entry == ClientTable[idx]
           client == OpenAI(ApiKeyArg(entry), entry.base_url)
       IN  IF client = <<>>
           THEN /\ result' = <<Raise("OpenAIError", 0)>>
                /\ pc' = "traceback"
                /\ UNCHANGED <<clients, idx>>
           ELSE /\ clients' = Bind(clients, entry.name, client[1])
                /\ result' = <<>>
                /\ pc' = IF idx = Len(ClientTable) THEN "calls" ELSE pc
                /\ idx' = IF idx = Len(ClientTable) THEN 1 ELSE idx + 1
    /\ UNCHANGED <<keys, request, sent, response, pull>>
    /\ MpFrame

tell_a_joke ==
    <<Message("user", "Tell a joke for a student on the journey to becoming an expert in LLM Engineering")>>

\* Lines 146-216: the create(...) statements, in source order.
CallTable ==
    << [client |-> "openai", model |-> "gpt-4.1-mini"],
       [client |-> "anthropic", model |-> "claude-sonnet-4-5-20250929"],
       [client |-> "gemini", model |-> "gemini-2.5-pro"],
       [client |-> "groq", model |-> "openai/gpt-oss-120b"],
       [client |-> "deepseek", model |-> "deepseek-reasoner"],
       [client |-> "grok", model |-> "grok-4"],
       [client |-> "ollama", model |-> "llama3.2"] >>

\* Mutant: the key is read from the environment again at the call.
CallProviderFresh(i, next) ==
    LET looked == Lookup(clients, CallTable[i].client)
        entry == CHOOSE e \in { ClientTable[j] : j \in 1..Len(ClientTable) } :
                    e.name = CallTable[i].client
        fresh == OpenAI(IF entry.key_var # None THEN Getenv(entry.key_var)
                        ELSE entry.literal, entry.base_url)
    IN  IF looked.kind = "raise" \/ fresh = <<>>
        THEN /\ result' = <<Raise("OpenAIError", 0)>>
             /\ pc' = "traceback"
             /\ UNCHANGED <<request, sent, response>>
        ELSE \E resp \in Responses :
                /\ CallAndCreate(fresh[1], CallTable[i].model, tell_a_joke, resp)
                /\ result' = <<ChoiceContent(resp)>>
                /\ pc' = IF ChoiceContent(resp).kind = "raise"
                         THEN "traceback" ELSE next

\* response = X.chat.completions.create(model=..., messages=tell_a_joke)
\* print(response.choices[0].message.content): nothing catches a raise.
CallProvider(i, next) ==
    LET looked == Lookup(clients, CallTable[i].client)
    IN  IF looked.kind = "raise"
        THEN /\ result' = <<looked>>
             /\ pc' = "traceback"
             /\ UNCHANGED <<request, sent, response>>
        ELSE \E resp \in Responses :
                /\ CallAndCreate(looked.value, CallTable[i].model, tell_a_joke, resp)
                /\ result' = <<ChoiceContent(resp)>>
                /\ pc' = IF ChoiceContent(resp).kind = "raise"
                         THEN "traceback" ELSE next

\* The hosted providers: OpenAI, Anthropic, Gemini, Groq, DeepSeek, Grok.
Calls ==
    /\ pc = "calls"
    /\ idx < Len(CallTable)
    /\ CallProvider(idx, IF idx + 1 = Len(CallTable) THEN "ollama_get" ELSE pc)
    /\ idx' = IF pc' = "traceback" THEN idx ELSE idx + 1
    /\ UNCHANGED <<keys, clients, pull>>
    /\ MpFrame

\* Line 212: requests.get("http://localhost:11434/").content
OllamaGet ==
    /\ pc = "ollama_get"
    /\ \E ok \in BOOLEAN :
          IF ok THEN pc' = "ollama_pull" /\ UNCHANGED result
          ELSE pc' = "traceback" /\ result' = <<Raise("ConnectionError", 0)>>
    /\ UNCHANGED <<idx, keys, clients, request, sent, response, pull>>
    /\ MpFrame

\* Line 214: subprocess.run(["ollama", "pull", "llama3.2"], check=False)
OllamaPullUnchecked ==
    /\ pc = "ollama_pull"
    /\ \E outcome \in PullOutcomes :
          /\ pull' = outcome
          /\ IF outcome = "FileNotFoundError"
             THEN pc' = "traceback" /\ result' = <<Raise("FileNotFoundError", 0)>>
             ELSE pc' = "ollama_call" /\ UNCHANGED result
    /\ UNCHANGED <<idx, keys, clients, request, sent, response>>
    /\ MpFrame

\* Lines 215-216.
OllamaCall ==
    /\ pc = "ollama_call"
    /\ CallProvider(Len(CallTable), "native_gemini")
    /\ UNCHANGED <<idx, keys, clients, pull>>
    /\ MpFrame

joke == <<Message("user", "tell a joke")>>

\* A native SDK client reads its key from the environment when constructed.
NativeClient(envVar, sdk) == [api_key |-> Getenv(envVar), base_url |-> sdk]

\* Lines 226-230 and 240-246: client = genai.Client() and client = Anthropic()
\* rebind `client`; without a key the statement pair raises.
NativeCall(here, next, envVar, sdk, model) ==
    /\ pc = here
    /\ clients' = Bind(clients, "client", NativeClient(envVar, sdk))
    /\ IF Getenv(envVar) = None
       THEN /\ result' = <<Raise(sdk \o " credential error", 0)>>
            /\ pc' = "traceback"
            /\ UNCHANGED <<request, sent, response>>
       ELSE \E ok \in BOOLEAN :
               /\ request' = <<ChatRequest(NativeClient(envVar, sdk), model, joke)>>
               /\ sent' = 1
               /\ response' = <<>>
               /\ result' = <<IF ok THEN Return("text")
                              ELSE Raise(sdk \o " APIError", 0)>>
               /\ pc' = IF ok THEN next ELSE "traceback"
    /\ UNCHANGED <<idx, keys, pull>>
    /\ MpFrame

NativeGemini ==
    NativeCall("native_gemini", "native_anthropic", "GOOGLE_API_KEY", "genai",
               "gemini-2.5-flash-lite")
NativeAnthropic ==
    NativeCall("native_anthropic", "exit", "ANTHROPIC_API_KEY", "anthropic",
               "claude-sonnet-4-5-20250929")

MultiProviderLlm ==
    \/ ApiKeySetup \/ ClientSetup \/ Calls
    \/ OllamaGet \/ OllamaPullUnchecked \/ OllamaCall
    \/ NativeGemini \/ NativeAnthropic

(***************************************************************************)
(* token_tracking.py                                                       *)
(***************************************************************************)
Letters ==
    {"a", "b", "c", "d", "e", "f", "g", "h", "i", "j", "k", "l", "m", "n",
     "o", "p", "q", "r", "s", "t", "u", "v", "w", "x", "y", "z",
     "A", "B", "C", "D", "E", "F", "G", "H", "I", "J", "K", "L", "M", "N",
     "O", "P", "Q", "R", "S", "T", "U", "V", "W", "X", "Y", "Z"}

\* encoding.encode(text): the tokenizer is tiktoken's; it is modelled by its
\* pre-tokenisation alone: a token is a run of letters with at most one
\* leading space, or any other single character.  A token starts at every
\* non-letter, and at a letter that follows neither a letter nor a space.
TokenStarts(text) ==
    { i \in 1..Len(text) :
        \/ SubSeq(text, i, i) \notin Letters
        \/ i = 1
        \/ SubSeq(text, i - 1, i - 1) \notin Letters \cup {" "} }

Encode(text) ==
    LET starts == TokenStarts(text)
        n == Cardinality(starts)
        nth(k) == CHOOSE i \in starts : Cardinality({j \in starts : j < i}) = k - 1
        last(k) == IF k = n THEN Len(text) ELSE nth(k + 1) - 1
    IN  [k \in 1..n |-> SubSeq(text, nth(k), last(k))]

\* Variables no action of token_tracking.py touches.
TtFrame == UNCHANGED <<script, env, envChanges, keys, attempted, pull, website, soup>>

\* Mutant: the newline after each message is left out.
LineNoNewline(message) == message.role \o ": " \o message.content

\* calculate_input_tokens, lines 45-47: one turn of the loop.
\* message["role"] + ": " + message["content"] + "\n"
Line(message) == message.role \o ": " \o message.content \o "\n"

calculate_input_tokens_loop ==
    /\ pc = "calculate_input_tokens"
    /\ idx <= Len(messages)
    /\ input_text' = input_text \o Line(messages[idx])
    /\ idx' = idx + 1
    /\ UNCHANGED <<pc, clients, request, sent, response, result, usage_printed,
                   messages, input_tokens, output_tokens>>
    /\ TtFrame

\* calculate_input_tokens, lines 48-49; control returns to the caller:
\* openai_api_token_tracking_example (line 106) or whoever called it.
calculate_input_tokens_return ==
    /\ pc = "calculate_input_tokens"
    /\ idx > Len(messages)
    /\ input_tokens' = Len(Encode(input_text))
    /\ pc' = IF script = "token_tracking" THEN "token_create" ELSE "exit"
    /\ UNCHANGED <<idx, clients, request, sent, response, result, usage_printed,
                   messages, input_text, output_tokens>>
    /\ TtFrame

\* calculate_output_tokens, lines 63-64.
calculate_output_tokens(text) == Len(Encode(text))

\* Lines 95-100.
ExampleMessages ==
    << Message("system", "You are a helpful assistant"),
       Message("user", "Hi! I'm Mkay!"),
       Message("assistant", "Hi Mkay! How can I assist you today?"),
       Message("user", "What's my name?") >>

\* openai_api_token_tracking_example, lines 82-106: the key check, the
\* client, the messages, and the call of calculate_input_tokens.
openai_api_token_tracking_example ==
    /\ pc = "token_example"
    /\ sent' = 0 /\ request' = <<>> /\ response' = <<>>
    /\ IF test_openai_client = <<>>
       THEN /\ result' = <<Return(None)>>
            /\ pc' = "exit"
            /\ UNCHANGED <<clients, messages, idx>>
       ELSE /\ result' = <<>>
            /\ clients' = Bind(NoClients, "openai", test_openai_client[1])
            /\ messages' = ExampleMessages
            /\ idx' = 1
            /\ pc' = "calculate_input_tokens"
    /\ UNCHANGED <<usage_printed, input_text, input_tokens, output_tokens>>
    /\ TtFrame

\* Mutant: zero counts are printed when the response has no usage.
PrintedUsageOrZero(resp) ==
    IF resp.usage = <<>>
    THEN <<[prompt_tokens |-> 0, completion_tokens |-> 0, total_tokens |-> 0]>>
    ELSE resp.usage

\* Lines 124-128: `if hasattr(response, 'usage') and response.usage:` prints
\* the three counts of the response; otherwise nothing is printed.
PrintedUsage(resp) == resp.usage

\* Lines 110-130: the request, the response content, the output tokens
\* (encode raises TypeError on None), the usage lines.
openai_api_token_tracking_example_create ==
    /\ pc = "token_create"
    /\ \E resp \in Responses :
          /\ ChatCompletionsCreate(clients["openai"], "gpt-4o-mini", messages, resp)
          /\ LET content == ChoiceContent(resp)
             IN  IF content.kind = "raise"
                 THEN /\ result' = <<content>>
                      /\ pc' = "traceback"
                      /\ UNCHANGED <<output_tokens, usage_printed>>
                 ELSE IF content.value = None
                 THEN /\ result' = <<Raise("TypeError", 0)>>
                      /\ pc' = "traceback"
                      /\ UNCHANGED <<output_tokens, usage_printed>>
                 ELSE /\ output_tokens' = calculate_output_tokens(content.value)
                      /\ usage_printed' = PrintedUsage(resp)
                      /\ result' = <<content>>
                      /\ pc' = "exit"
    /\ UNCHANGED <<idx, clients, messages, input_text, input_tokens>>
    /\ TtFrame

TokenTracking == openai_api_token_tracking_example \/ calculate_input_tokens_loop \/ calculate_input_tokens_return \/ openai_api_token_tracking_example_create

(***************************************************************************)
(* web_scraper.py                                                          *)
(***************************************************************************)
CONTENT_LIMIT == 2000

system_prompt ==
    "\nYou are a financial research assistant expert at stock market trading. Your job is to analyze the contents of a website, and \nextract information that can signal bullish or bearish trading for the day. \n"

user_prompt_prefix == "\nHere are the contents of a website.\n\n"

\* Mutant: the system message is put after the user message.
messages_for_user_first(site) ==
    << Message("user", user_prompt_prefix \o site),
       Message("system", system_prompt) >>

\* messages_for, lines 65-70.
messages_for(site) ==
    << Message("system", system_prompt),
       Message("user", user_prompt_prefix \o site) >>

\* text[:n]
Slice(text, n) == IF Len(text) <= n THEN text ELSE SubSeq(text, 1, n)

RECURSIVE Doubled(_, _)
Doubled(text, times) ==
    IF times = 0 THEN text
    ELSE LET half == Doubled(text, times - 1) IN half \o half

\* What the parser finds in a fetched page: title is absent, or the title
\* element's string (None for an empty or nested title); body is absent, or
\* its text without script, style, img and input elements.
Pages ==
    { [title |-> t, body |-> b] :
        t \in { <<>>, <<None>>, <<"Markets">> },
        b \in { <<>>, <<"Stocks rally">>, <<Doubled("up ", 10)>> } }

\* fetch_website_contents, lines 85-96, on a fetched page.
fetch_website_contents(page) ==
    LET title == IF page.title # <<>> THEN page.title[1] ELSE "No title found"
        text == IF page.body # <<>> THEN page.body[1] ELSE ""
    IN  IF title = None THEN Raise("TypeError", 0)
        ELSE Return(Slice(title \o "\n\n" \o text, CONTENT_LIMIT))

\* Variables no action of web_scraper.py or hello_world.py touches.
WsFrame ==
    UNCHANGED <<script, idx, env, envChanges, attempted, usage_printed, messages,
                input_text, input_tokens, output_tokens, pull>>

\* Lines 28-35: the key is read and its absence reported; nothing stops.
ApiKeyCheck(here, next) ==
    /\ pc = here
    /\ keys' = [n \in {"api_key"} |-> Getenv("OPENAI_API_KEY")]
    /\ pc' = next
    /\ UNCHANGED <<clients, request, sent, response, result, website, soup>>
    /\ WsFrame

WebScraperKeyCheck == ApiKeyCheck("ws_key_check", "summarize")

\* summarize, line 110: requests.get may fail; the title may be None.
summarize ==
    /\ pc = "summarize"
    /\ sent' = 0 /\ request' = <<>> /\ response' = <<>>
    /\ \/ /\ result' = <<Raise("ConnectionError", 0)>>
          /\ pc' = "traceback"
          /\ UNCHANGED <<website, soup>>
       \/ \E page \in Pages :
             LET fetched == fetch_website_contents(page)
             IN  /\ soup' = <<page>>
                 /\ IF fetched.kind = "raise"
                    THEN /\ result' = <<fetched>>
                         /\ pc' = "traceback"
                         /\ UNCHANGED website
                    ELSE /\ website' = fetched.value
                         /\ result' = <<>>
                         /\ pc' = "summarize_create"
    /\ UNCHANGED <<keys, clients>>
    /\ WsFrame

\* summarize, lines 111-115: `openai` is the library module, whose default
\* client is made from the environment when it is first used.
summarize_create ==
    /\ pc = "summarize_create"
    /\ LET client == OpenAI(None, DEFAULT_BASE_URL)
       IN  IF client = <<>>
           THEN /\ result' = <<Raise("OpenAIError", 0)>>
                /\ pc' = "traceback"
                /\ UNCHANGED <<request, sent, response>>
           ELSE \E resp \in Responses :
                   /\ ChatCompletionsCreate(client[1], "gpt-4o-mini",
                                            messages_for(website), resp)
                   /\ result' = <<ChoiceContent(resp)>>
                   /\ pc' = IF ChoiceContent(resp).kind = "raise"
                            THEN "traceback" ELSE "exit"
    /\ UNCHANGED <<keys, clients, website, soup>>
    /\ WsFrame

WebScraper == WebScraperKeyCheck \/ summarize \/ summarize_create

(***************************************************************************)
(* hello_world.py                                                          *)
(***************************************************************************)
HelloWorldKeyCheck == ApiKeyCheck("hw_key_check", "hw_client")

\* Line 46: openai_client = OpenAI()
HelloWorldClient ==
    /\ pc = "hw_client"
    /\ LET client == OpenAI(None, DEFAULT_BASE_URL)
       IN  IF client = <<>>
           THEN /\ result' = <<Raise("OpenAIError", 0)>>
                /\ pc' = "traceback"
                /\ UNCHANGED clients
           ELSE /\ clients' = Bind(clients, "openai_client", client[1])
                /\ result' = <<>>
                /\ pc' = "hw_user"
    /\ UNCHANGED <<keys, request, sent, response, website, soup>>
    /\ WsFrame

\* Lines 42-43.
UserOnly == <<Message("user", "Hello, GPT! What is 1+1?")>>

\* Lines 59-68 and 80-83.
SystemAndUser ==
    << Message("system",
               "\nYou are a humorous assistant that enjoys in proving customer service,\nYou will intereact with the user and figure out how to tell a joke that is friendly and non-offensive.\nYour job is to make the user feel happy. You will not tell the user that you are an AI assistant.\n"),
       Message("user", "\nHello! Today is a beautiful day!\n") >>

\* response = openai_client.chat.completions.create(...); print(...)
HelloWorldCall(here, next, msgs) ==
    /\ pc = here
    /\ \E resp \in Responses :
          /\ CallAndCreate(clients["openai_client"], "gpt-4o-mini", msgs, resp)
          /\ result' = <<ChoiceContent(resp)>>
          /\ pc' = IF ChoiceContent(resp).kind = "raise" THEN "traceback" ELSE next
    /\ UNCHANGED <<keys, clients, website, soup>>
    /\ WsFrame

\* Lines 47-48.
HelloWorldUser == HelloWorldCall("hw_user", "hw_system", UserOnly)
\* Lines 85-86.
HelloWorldSystem == HelloWorldCall("hw_system", "exit", SystemAndUser)

HelloWorld ==
    \/ HelloWorldKeyCheck \/ HelloWorldClient
    \/ HelloWorldUser \/ HelloWorldSystem

(***************************************************************************)
(* The specification.                                                      *)
(***************************************************************************)
Scripts ==
    {"openai_client", "multi_provider_llm", "token_tracking", "web_scraper",
     "hello_world"}

Entry(s) ==
    CASE s = "openai_client" -> "test_openai"
      [] s = "multi_provider_llm" -> "api_key_setup"
      [] s = "token_tracking" -> "token_example"
      [] s = "web_scraper" -> "ws_key_check"
      [] s = "hello_world" -> "hw_key_check"

Init ==
    /\ script \in Scripts
    /\ pc = Entry(script)
    /\ idx = 0
    /\ env \in DotEnvFiles
    /\ envChanges = 0
    /\ keys = [n \in {} |-> None]
    /\ clients = NoClients
    /\ request = <<>>
    /\ sent = 0
    /\ response = <<>>
    /\ result = <<>>
    /\ attempted = <<>>
    /\ usage_printed = <<>>
    /\ messages = <<>>
    /\ input_text = ""
    /\ input_tokens = -1
    /\ output_tokens = -1
    /\ pull = None
    /\ website = None
    /\ soup = <<>>

Next ==
    \/ EnvChange
    \/ OpenaiClientMain
    \/ MultiProviderLlm
    \/ TokenTracking
    \/ WebScraper
    \/ HelloWorld

Spec == Init /\ [][Next]_vars

(***************************************************************************)
(* calculate_input_tokens as a function of its argument: the conversation  *)
(* is any list of at most MaxMsgs messages.                                *)
(***************************************************************************)
Roles == {"system", "user", "assistant"}
SampleContents == {"", "S", "Hi"}
SampleMessages == { Message(r, c) : r \in Roles, c \in SampleContents }
Conversations == UNION { [1..n -> SampleMessages] : n \in 0..MaxMsgs }

InitTokens ==
    /\ script = "calculate_input_tokens"
    /\ pc = "calculate_input_tokens"
    /\ idx = 1
    /\ messages \in Conversations
    /\ env = [v \in EnvVars |-> None]
    /\ envChanges = 0
    /\ keys = [n \in {} |-> None]
    /\ clients = NoClients
    /\ request = <<>>
    /\ sent = 0
    /\ response = <<>>
    /\ result = <<>>
    /\ attempted = <<>>
    /\ usage_printed = <<>>
    /\ input_text = ""
    /\ input_tokens = -1
    /\ output_tokens = -1
    /\ pull = None
    /\ website = None
    /\ soup = <<>>

NextTokens == calculate_input_tokens_loop \/ calculate_input_tokens_return

SpecTokens == InitTokens /\ [][NextTokens]_vars

(***************************************************************************)
(* C3: calculate_input_tokens returns the number of tokens of the text     *)
(* made of role + ": " + content + "\n" for each message, in the order of  *)
(* the conversation; [{system,"S"},{user,"Hi"}] flattens to                *)
(* "system: S\nuser: Hi\n".                                                *)
(***************************************************************************)
RECURSIVE Flattened(_)
Flattened(conv) ==
    IF conv = <<>> THEN ""
    ELSE Head(conv).role \o ": " \o Head(conv).content \o "\n"
         \o Flattened(Tail(conv))

ScenarioE == <<Message("system", "S"), Message("user", "Hi")>>

C3_FlattenedCount ==
    /\ pc = "calculate_input_tokens" =>
          input_text = Flattened(SubSeq(messages, 1, idx - 1))
    /\ input_tokens # -1 =>
          /\ input_text = Flattened(messages)
          /\ input_tokens = Len(Encode(Flattened(messages)))
          /\ messages = ScenarioE => input_text = "system: S\nuser: Hi\n"

C3_Witness ==
    /\ pc = "exit"
    /\ Len(messages) = 3
    /\ messages[1].role = "system" /\ messages[3].content = "Hi"
    /\ input_tokens = Len(Encode(input_text))
    /\ input_tokens > Len(messages)

(***************************************************************************)
(* C4: a call sends at most one request; when the backend answers with a   *)
(* non-2xx status the call ends with the error carrying that status and    *)
(* nothing more is sent.                                                   *)
(***************************************************************************)
CreatePcs ==
    {"test_openai_create", "test_gemini_create", "test_ollama_llama_create",
     "test_ollama_deepseek_create", "token_create", "summarize_create"}

ConversationInvariant(conv) ==
    /\ Len(conv) >= 1
    /\ Cardinality({i \in 1..Len(conv) : conv[i].role = "system"}) <= 1
    /\ \A i \in 1..Len(conv) : conv[i].role = "system" => i = 1

C9_ConversationsWellFormed ==
    request # <<>> => ConversationInvariant(request[1].messages)

C9_Witness ==
    /\ request # <<>>
    /\ script = "web_scraper"
    /\ Len(request[1].messages) = 2
    /\ request[1].messages[1].role = "system"
    /\ request[1].messages[2].role = "user"

(***************************************************************************)
(* C10: token_tracking reports usage exactly when the response carries     *)
(* it: a success response without usage is no error and no counts are      *)
(* printed; with usage the three counts are printed unchanged.             *)
(***************************************************************************)
WellFormed(resp) ==
    /\ resp.kind = "ok"
    /\ resp.has_choices
    /\ Len(resp.choices) >= 1
    /\ resp.choices[1].content # None

C10_UsageWhenSupplied ==
    (script = "token_tracking" /\ response # <<>> /\ WellFormed(response[1])) =>
        /\ pc = "exit"
        /\ result = <<Return(response[1].choices[1].content)>>
        /\ usage_printed = response[1].usage

C10_Witness ==
    /\ script = "token_tracking"
    /\ pc = "exit"
    /\ response # <<>> /\ WellFormed(response[1])
    /\ response[1].usage = <<>>
    /\ usage_printed = <<>>
    /\ result # <<>> /\ result[1].kind = "return"

(***************************************************************************)
(* The calls that check their credential when they are called, and the     *)
(* statement of each that executes in a step.                              *)
(***************************************************************************)
KeyedCalls ==
    { [at |-> "test_openai", var |-> "OPENAI_API_KEY", name |-> "openai",
       next |-> "test_gemini"],
      [at |-> "test_gemini", var |-> "GOOGLE_API_KEY", name |-> "gemini",
       next |-> "test_ollama_llama"],
      [at |-> "token_example", var |-> "OPENAI_API_KEY", name |-> "openai",
       next |-> "exit"] }

OllamaTests == {"test_ollama_llama", "test_ollama_deepseek"}

Step(at) == pc = at /\ pc' # at

C2_OllamaAlwaysResolves ==
    [][(\/ \E t \in OllamaTests : Step(t)
        \/ (pc = "client_setup" /\ idx = Len(ClientTable) /\ pc' # pc)) =>
           /\ pc' # "traceback"
           /\ result' = <<>>
           /\ "ollama" \in DOMAIN clients'
           /\ ~Falsy(clients'["ollama"].api_key)
           /\ clients'["ollama"].base_url \in {OLLAMA_BASE_URL, ollama_url}]_vars

C2_Witness ==
    /\ script = "openai_client"
    /\ pc = "test_ollama_llama_pull"
    /\ \A v \in EnvVars : env[v] = None
    /\ "ollama" \in DOMAIN clients
    /\ clients["ollama"].api_key = "ollama"

(***************************************************************************)
(* C5 as stated: a call that ends without having sent a request (its       *)
(* provider did not resolve) ends with the error, never with a normal      *)
(* return of an empty result.                                              *)
(***************************************************************************)
C5_AsStated ==
    (result # <<>> /\ sent = 0) => result[1].kind = "raise"

(***************************************************************************)
(* C5 as amended: on a missing credential test_openai, test_gemini and the *)
(* token-tracking example hand their caller None in place of an error and  *)
(* the caller goes on; the request is not proceeded with.  An error raised *)
(* by the client constructor reaches the top level unchanged, and nothing  *)
(* is sent.                                                                *)
(***************************************************************************)
C5_NoneInPlaceOfError ==
    [][/\ \A c \in KeyedCalls :
             (Step(c.at) /\ Falsy(env[c.var])) =>
                 /\ result' = <<Return(None)>>
                 /\ pc' = c.next
                 /\ request' = <<>> /\ response' = <<>> /\ sent' = 0
       /\ (result' # result /\ result' = <<Raise("OpenAIError", 0)>>) =>
             /\ pc' = "traceback"
             /\ sent' = 0 /\ request' = <<>>]_vars

C5_Witness ==
    /\ script = "token_tracking"
    /\ pc = "exit"
    /\ result = <<Return(None)>>
    /\ sent = 0 /\ request = <<>>
    /\ input_tokens = -1

(***************************************************************************)
(* C6: in multi_provider_llm.py a name looks up as unknown exactly when no *)
(* assignment to it has executed, and otherwise as the client of the most  *)
(* recent assignment; an assignment leaves every other name as it was, and *)
(* binding the same client twice is binding it once.                       *)
(***************************************************************************)
Names == { ClientTable[i].name : i \in 1..Len(ClientTable) } \cup {"client"}

Known(table) == { n \in Names : Lookup(table, n).kind = "return" }

TableNames(n) == { ClientTable[i].name : i \in 1..n }

C6_KnownNames ==
    script = "multi_provider_llm" =>
        /\ pc = "api_key_setup" => Known(clients) = {}
        /\ pc = "client_setup" => Known(clients) = TableNames(idx - 1)
        /\ pc \in {"calls", "ollama_get", "ollama_pull", "ollama_call",
                   "native_gemini"} =>
              Known(clients) = TableNames(Len(ClientTable))
        /\ pc \in {"native_anthropic", "exit"} => Known(clients) = Names
        /\ \A n \in Known(clients) :
              Bind(Bind(clients, n, clients[n]), n, clients[n]) = clients
        /\ \A n \in Names :
              LET c == [api_key |-> "k2", base_url |-> gemini_url]
              IN  Bind(Bind(clients, n, c), n, c) = Bind(clients, n, c)

C6_Assigned ==
    script = "multi_provider_llm" =>
        /\ (pc = "client_setup" /\ pc' # "traceback" /\ <<pc, idx>>' # <<pc, idx>>) =>
              LET entry == ClientTable[idx]
              IN  /\ Lookup(clients', entry.name).kind = "return"
                  /\ clients'[entry.name].base_url = entry.base_url
                  /\ clients'[entry.name].api_key
                        \in {ApiKeyArg(entry), Getenv("OPENAI_API_KEY")}
                  /\ \A n \in Names \ {entry.name} :
                        Lookup(clients', n) = Lookup(clients, n)
        /\ (Step("native_gemini") \/ Step("native_anthropic")) =>
              /\ Lookup(clients', "client").kind = "return"
              /\ clients'["client"].base_url =
                    (IF pc = "native_gemini" THEN "genai" ELSE "anthropic")
              /\ \A n \in Names \ {"client"} :
                    Lookup(clients', n) = Lookup(clients, n)
        /\ pc \notin {"client_setup", "native_gemini", "native_anthropic"} =>
              \A n \in Names : Lookup(clients', n) = Lookup(clients, n)

KeyVarOf(name) ==
    LET i == CHOOSE j \in 1..Len(ClientTable) : ClientTable[j].name = name
    IN  ClientTable[i].key_var

C8_AsStated ==
    [][(script = "multi_provider_llm" /\ pc = "calls" /\ <<pc, idx>>' # <<pc, idx>>) =>
          LET v == KeyVarOf(CallTable[idx].client)
          IN  (v # None /\ ~Falsy(keys[v])) =>
                  IF Falsy(env[v])
                  THEN request' = request /\ result'[1].kind = "raise"
                  ELSE request'[1].api_key = env[v]]_vars

(***************************************************************************)
(* C8 as amended: test_openai, test_gemini and the token-tracking example  *)
(* read the credential at each call.  multi_provider_llm.py reads every    *)
(* key once, when the module is loaded; its clients keep the key they were *)
(* constructed with, and a later request carries that key even when the    *)
(* variable has been unset or changed in between.                          *)
(***************************************************************************)
C8_ReadAtCallOrAtLoad ==
    [][/\ \A c \in KeyedCalls :
             (Step(c.at) /\ ~Falsy(env[c.var])) =>
                 clients'[c.name].api_key = env[c.var]
       /\ script = "multi_provider_llm" =>
             /\ pc # "api_key_setup" => keys' = keys
             /\ pc \notin {"api_key_setup", "client_setup"} =>
                   \A n \in TableNames(Len(ClientTable)) : clients'[n] = clients[n]
             /\ (pc = "calls" /\ <<pc, idx>>' # <<pc, idx>>) =>
                   LET v == KeyVarOf(CallTable[idx].client)
                   IN  /\ request' # <<>>
                       /\ request'[1].api_key = clients[CallTable[idx].client].api_key
                       /\ (v # None /\ keys[v] # None) =>
                             request'[1].api_key = keys[v]]_vars

C8_Witness ==
    /\ script = "multi_provider_llm"
    /\ request # <<>>
    /\ request[1].base_url = anthropic_url
    /\ request[1].api_key = "k1"
    /\ keys["ANTHROPIC_API_KEY"] = "k1"
    /\ env["ANTHROPIC_API_KEY"] = None

(***************************************************************************)
(* A success answer whose body cannot be read as a completion: no choices  *)
(* field, no first choice, or a first choice without content.              *)
(***************************************************************************)
NoFirstChoice(resp) ==
    resp.kind = "ok" /\ (~resp.has_choices \/ Len(resp.choices) = 0)

NoContent(resp) ==
    /\ resp.kind = "ok" /\ resp.has_choices /\ Len(resp.choices) > 0
    /\ resp.choices[1].content = None

\* The steps that execute a create(...) statement.
OllamaCreatePcs == {"test_ollama_llama_create", "test_ollama_deepseek_create"}

CreateStep ==
    /\ pc \in CreatePcs \cup {"calls", "ollama_call", "hw_user", "hw_system"}
    /\ <<pc, idx>>' # <<pc, idx>>
    /\ response' # <<>>

AccessErrors == {"TypeError", "AttributeError", "IndexError"}

(***************************************************************************)
(* C11 as stated: on a success answer that lacks the choices field, or has *)
(* no first choice with a content, the call raises MalformedResponseError; *)
(* it returns no result and raises no other kind of error.                 *)
(***************************************************************************)
C11_AsStated ==
    [][(CreateStep /\ (NoFirstChoice(response'[1]) \/ NoContent(response'[1]))) =>
          result' = <<Raise("MalformedResponseError", 0)>>]_vars

(***************************************************************************)
(* C11 as amended: on a success answer that lacks the choices field or has *)
(* an empty list of choices the call raises the error of the failed access *)
(* to response.choices[0] itself, untranslated, and returns no result; on  *)
(* a first choice whose content is None the access succeeds and None is    *)
(* the result, except in the token-tracking example, where encoding None   *)
(* raises TypeError.                                                       *)
(***************************************************************************)
C11_AccessErrorOrNone ==
    [][CreateStep =>
          /\ NoFirstChoice(response'[1]) =>
                /\ result' # <<>>
                /\ result'[1].kind = "raise"
                /\ result'[1].error \in AccessErrors
                /\ result'[1].error = "IndexError" <=> response'[1].has_choices
                /\ pc' = IF pc \in OllamaCreatePcs
                         THEN (IF pc = "test_ollama_llama_create"
                               THEN "test_ollama_deepseek" ELSE "exit")
                         ELSE "traceback"
          /\ NoContent(response'[1]) =>
                IF pc = "token_create"
                THEN result' = <<Raise("TypeError", 0)>> /\ pc' = "traceback"
                ELSE result' = <<Return(None)>> /\ pc' # "traceback"]_vars

C11_Witness ==
    /\ script = "web_scraper"
    /\ response # <<>>
    /\ response[1].kind = "ok" /\ ~response[1].has_choices
    /\ result = <<Raise("TypeError", 0)>>
    /\ sent = 1
    /\ pc = "traceback"

(***************************************************************************)
(* C12: for every fetched page fetch_website_contents returns a string of  *)
(* at most 2000 characters, the first 2000 characters of                   *)
(* title + "\n\n" + body text, where the title is "No title found" when    *)
(* the page has no title and the body text is empty when the page has no   *)
(* body; it never fails on the shape of the page.                          *)
(***************************************************************************)
C12_FirstCharactersOfPage ==
    [][(pc = "summarize" /\ soup' # <<>>) =>
          LET page == soup'[1]
              text == IF page.body = <<>> THEN "" ELSE page.body[1]
          IN  /\ pc' = "summarize_create"
              /\ result' = <<>>
              /\ Len(website') <= CONTENT_LIMIT
              /\ website' =
                    Slice((IF page.title = <<>> THEN "No title found"
                           ELSE page.title[1]) \o "\n\n" \o text,
                          CONTENT_LIMIT)]_vars

(***************************************************************************)
(* C13: the main run of openai_client attempts the four provider tests in  *)
(* the fixed order OpenAI, Gemini, Ollama Llama, Ollama Deepseek; a        *)
(* missing OpenAI or Google credential, or an exception raised by an       *)
(* Ollama test, never prevents the following tests from being attempted:   *)
(* the run goes on to the next test, it stops early only on an error       *)
(* raised by the request of the OpenAI or the Gemini test, and it ends     *)
(* only after all four were attempted.                                     *)
(***************************************************************************)
TestOrder ==
    <<"OpenAI", "Google Gemini", "Ollama Llama 3.2", "Ollama Deepseek R1">>

TestPcs ==
    <<{"test_openai"},
      {"test_openai_create", "test_gemini"},
      {"test_gemini_create", "test_ollama_llama"},
      {"test_ollama_llama_pull", "test_ollama_llama_create", "test_ollama_deepseek"},
      {"test_ollama_deepseek_pull", "test_ollama_deepseek_create", "exit"}>>

C13_InOrder ==
    script = "openai_client" =>
        /\ Len(attempted) <= Len(TestOrder)
        /\ attempted = SubSeq(TestOrder, 1, Len(attempted))
        /\ pc # "traceback" => pc \in TestPcs[Len(attempted) + 1]
        /\ pc = "exit" => attempted = TestOrder
        /\ pc = "traceback" =>
              /\ Len(attempted) \in {1, 2}
              /\ sent = 1 /\ response # <<>>
              /\ result # <<>> /\ result[1].kind = "raise"
        /\ Running => ENABLED OpenaiClientMain

C13_GoesOn ==
    /\ \A c \in KeyedCalls :
          (script = "openai_client" /\ Step(c.at) /\ Falsy(env[c.var])) =>
              pc' = c.next
    /\ \A t \in OllamaTests :
          (/\ pc \in {t, t \o "_pull", t \o "_create"}
           /\ pc' # pc
           /\ result' # <<>> /\ result'[1].kind = "raise") =>
              pc' = IF t = "test_ollama_llama" THEN "test_ollama_deepseek" ELSE "exit"

C13_FixedOrderOfTests == []C13_InOrder /\ [][C13_GoesOn]_vars

C13_Witness ==
    /\ script = "openai_client"
    /\ pc = "exit"
    /\ attempted = TestOrder
    /\ envChanges = 0
    /\ Falsy(env["OPENAI_API_KEY"]) /\ Falsy(env["GOOGLE_API_KEY"])
    /\ result = <<Raise("CalledProcessError", 0)>>

(***************************************************************************)
(* C14: in test_ollama_llama and test_ollama_deepseek the chat request to  *)
(* the local host is sent only after the pull subprocess of that test has  *)
(* finished with exit status 0; when the pull exits with a non-zero status *)
(* an error is raised and no request is sent.                              *)
(***************************************************************************)
C14_SentAfterPull ==
    script = "openai_client" =>
        /\ pc \in OllamaCreatePcs => pull = "exit 0"
        /\ (request # <<>> /\ request[1].base_url = OLLAMA_BASE_URL) =>
              pull = "exit 0"
        /\ pull = "exit 1" =>
              /\ result = <<Raise("CalledProcessError", 0)>>
              /\ sent = 0 /\ request = <<>> /\ response = <<>>
              /\ pc \in {"test_ollama_deepseek", "exit"}

C14_PullThenCreate ==
    /\ \A t \in OllamaTests :
          (pc = t \o "_pull" /\ pc' # pc) =>
              IF pull' = "exit 0"
              THEN pc' = t \o "_create" /\ request' = <<>> /\ sent' = 0
              ELSE /\ result' # <<>> /\ result'[1].kind = "raise"
                   /\ request' = <<>> /\ sent' = 0
                   /\ pc' \notin OllamaCreatePcs
    /\ (script = "openai_client" /\ sent' > sent
        /\ request'[1].base_url = OLLAMA_BASE_URL) =>
              pc \in OllamaCreatePcs /\ pull = "exit 0"

C14_PullBeforeRequest == []C14_SentAfterPull /\ [][C14_PullThenCreate]_vars

C14_Witness ==
    /\ script = "openai_client"
    /\ pc = "test_ollama_deepseek"
    /\ attempted = <<"OpenAI", "Google Gemini", "Ollama Llama 3.2">>
    /\ pull = "exit 1"
    /\ result = <<Raise("CalledProcessError", 0)>>
    /\ sent = 0 /\ request = <<>>

====
